---- MODULE Spec2Model ----
(***************************************************************************)
(* State-machine model of src/Sudoku_Solver.py: the cell selection         *)
(* find_next_empty_cell, the constraint check is_valid_number and the      *)
(* recursive search solve_sudoku, whose activations are kept as an         *)
(* explicit stack of frames.                                               *)
(***************************************************************************)
EXTENDS Integers, Sequences, FiniteSets

\* range(9): the side of the grid
N == 9
\* the side of a square, (row//3)*3
BOX == 3
\* the marker of an unassigned cell, puzzle[r][c] == -1
EMPTY == -1
\* Python's None, as returned by find_next_empty_cell for a full grid:
\* an integer that is no row, no column and no cell value
None == -2

\* Bounds of the model: the largest number of trailing cells blanked in an
\* input of the search, and in an input of the two-run comparison.
MaxEmpty == 15
MaxEmptyDet == 3

Rows == 0 .. (N - 1)
Cols == 0 .. (N - 1)
Guesses == 1 .. N

VARIABLES
  input,     \* the grid handed to the outermost call
  puzzle,    \* puzzle[k]: the grid of run k, mutated in place
  stack,     \* stack[k]: the activations of solve_sudoku in run k, outermost first
  ret,       \* ret[k]: the value the last finished activation returned
  writes,    \* writes[k]: the assignments puzzle[row][col] = guess made, in order
  ntests,    \* ntests[k]: the calls of is_valid_number made by solve_sudoku
  ncalls,    \* ncalls[k]: the recursive calls of solve_sudoku made
  lastTest,  \* lastTest[k]: the last call of is_valid_number made by solve_sudoku
  chk        \* a direct call of is_valid_number: its arguments and its result

vars == <<input, puzzle, stack, ret, writes, ntests, ncalls, lastTest, chk>>

Runs == DOMAIN puzzle

\* find_next_empty_cell with the test of line 4 inverted, puzzle[r][c] != -1
find_next_empty_cell_inverted(p) ==
  LET full == {rc \in Rows \X Cols : p[rc[1]][rc[2]] # EMPTY}
  IN IF full = {}
       THEN <<None, None>>
       ELSE CHOOSE rc \in full :
              \A o \in full : rc[1] < o[1] \/ (rc[1] = o[1] /\ rc[2] <= o[2])

(***************************************************************************)
(* find_next_empty_cell: the first cell, rows 0..8 and in each row columns *)
(* 0..8, that holds -1; (None, None) when there is none.                   *)
(***************************************************************************)
find_next_empty_cell(p) ==
  LET empty == {rc \in Rows \X Cols : p[rc[1]][rc[2]] = EMPTY}
  IN IF empty = {}
       THEN <<None, None>>
       ELSE CHOOSE rc \in empty :
              \A o \in empty : rc[1] < o[1] \/ (rc[1] = o[1] /\ rc[2] <= o[2])

\* is_valid_number without the scan of the 3x3 square
is_valid_number_nosquare(p, guess, row, col) ==
  /\ ~ (\E c \in Cols : p[row][c] = guess)
  /\ ~ (\E i \in Rows : p[i][col] = guess)

\* is_valid_number without the scan of the column
is_valid_number_nocolumn(p, guess, row, col) ==
  /\ ~ (\E c \in Cols : p[row][c] = guess)
  /\ ~ (\E r \in ((row \div BOX) * BOX) .. ((row \div BOX) * BOX + BOX - 1),
           c \in ((col \div BOX) * BOX) .. ((col \div BOX) * BOX + BOX - 1) :
           p[r][c] = guess)

\* is_valid_number refusing a target cell that is occupied
is_valid_number_occupied(p, guess, row, col) ==
  /\ p[row][col] = EMPTY
  /\ ~ (\E c \in Cols : p[row][c] = guess)
  /\ ~ (\E i \in Rows : p[i][col] = guess)
  /\ ~ (\E r \in ((row \div BOX) * BOX) .. ((row \div BOX) * BOX + BOX - 1),
           c \in ((col \div BOX) * BOX) .. ((col \div BOX) * BOX + BOX - 1) :
           p[r][c] = guess)

(***************************************************************************)
(* is_valid_number: False when guess is in the row (the whole list         *)
(* puzzle[row], the target cell included), in the column, or in the 3x3    *)
(* square starting at ((row//3)*3, (col//3)*3); True otherwise.            *)
(***************************************************************************)
is_valid_number(p, guess, row, col) ==
  LET row_vals == p[row]
      row_start_idx == (row \div BOX) * BOX
      col_start_idx == (col \div BOX) * BOX
  IN IF \E c \in Cols : row_vals[c] = guess
       THEN FALSE
       ELSE IF \E i \in Rows : p[i][col] = guess
         THEN FALSE
         ELSE IF \E r \in row_start_idx .. (row_start_idx + BOX - 1),
                    c \in col_start_idx .. (col_start_idx + BOX - 1) :
                    p[r][c] = guess
           THEN FALSE
           ELSE TRUE

(***************************************************************************)
(* Input grids.                                                            *)
(***************************************************************************)
\* a valid complete grid
Base == [r \in Rows |-> [c \in Cols |->
           ((BOX * (r % BOX) + (r \div BOX) + c) % N) + 1]]

\* Base with every cell from the K-th on, in row-major order, EMPTY
Prefix(K) == [r \in Rows |-> [c \in Cols |->
               IF r * N + c < K THEN Base[r][c] ELSE EMPTY]]

\* Prefix(K) with one more clue, v, in cell c of the last row
ExtraClue(K, c, v) == [Prefix(K) EXCEPT ![N - 1][c] = v]

\* the grid with the single clue v in cell (0, 0)
SingleClue(v) == [Prefix(0) EXCEPT ![0][0] = v]

\* the grids with at most m trailing cells blanked, with or without one more clue
InputsUpTo(m) ==
  {Prefix(K) : K \in (N * N - m) .. (N * N)}
  \cup {ExtraClue(K, c, v) : K \in (N * N - m) .. (N * N), c \in Cols, v \in Guesses}

Inputs == {Prefix(0)} \cup {SingleClue(v) : v \in Guesses} \cup InputsUpTo(MaxEmpty)

DetInputs == InputsUpTo(MaxEmptyDet)

CheckInputs ==
  {Prefix(0)} \cup {SingleClue(v) : v \in Guesses}
  \cup {Prefix(K) : K \in (N * N - MaxEmpty) .. (N * N)}

\* the frame of an activation that has not yet run line 34
EntryFrame == [row |-> None, col |-> None, guess |-> 0, pc |-> "entry"]

NoTest == [row |-> None, col |-> None, guess |-> 0, held |-> EMPTY, result |-> FALSE]

NoCheck == [guess |-> 0, row |-> None, col |-> None, result |-> "unused"]

InitRuns(ids, g) ==
  /\ input = g
  /\ puzzle = [k \in ids |-> g]
  /\ stack = [k \in ids |-> <<EntryFrame>>]
  /\ ret = [k \in ids |-> "pending"]
  /\ writes = [k \in ids |-> <<>>]
  /\ ntests = [k \in ids |-> 0]
  /\ ncalls = [k \in ids |-> 0]
  /\ lastTest = [k \in ids |-> NoTest]
  /\ chk = NoCheck

Init == \E g \in Inputs : InitRuns({1}, g)

Top(k) == stack[k][Len(stack[k])]

Pop(k) == SubSeq(stack[k], 1, Len(stack[k]) - 1)

SetTop(k, f) == [stack[k] EXCEPT ![Len(stack[k])] = f]

\* lines 34-37 with a bare return: the call evaluates to None
BaseCaseBareReturn(k) ==
  /\ stack[k] # <<>>
  /\ Top(k).pc = "entry"
  /\ find_next_empty_cell(puzzle[k])[1] = None
  /\ stack' = [stack EXCEPT ![k] = Pop(k)]
  /\ ret' = [ret EXCEPT ![k] = "None"]
  /\ UNCHANGED <<input, puzzle, writes, ntests, ncalls, lastTest, chk>>

\* lines 34-37: no empty cell, return True
BaseCase(k) ==
  /\ stack[k] # <<>>
  /\ Top(k).pc = "entry"
  /\ find_next_empty_cell(puzzle[k])[1] = None
  /\ stack' = [stack EXCEPT ![k] = Pop(k)]
  /\ ret' = [ret EXCEPT ![k] = "True"]
  /\ UNCHANGED <<input, puzzle, writes, ntests, ncalls, lastTest, chk>>

\* lines 34-39 with the empty cell taken in no fixed order, as from a set
SelectCellAnyOrder(k) ==
  /\ stack[k] # <<>>
  /\ Top(k).pc = "entry"
  /\ \E rc \in {a \in Rows \X Cols : puzzle[k][a[1]][a[2]] = EMPTY} :
       stack' = [stack EXCEPT ![k] =
         SetTop(k, [row |-> rc[1], col |-> rc[2], guess |-> 1, pc |-> "loop"])]
  /\ UNCHANGED <<input, puzzle, ret, writes, ntests, ncalls, lastTest, chk>>

\* lines 34-39: an empty cell is selected and the loop starts at guess 1
SelectCell(k) ==
  /\ stack[k] # <<>>
  /\ Top(k).pc = "entry"
  /\ find_next_empty_cell(puzzle[k])[1] # None
  /\ LET rc == find_next_empty_cell(puzzle[k])
     IN stack' = [stack EXCEPT ![k] =
          SetTop(k, [row |-> rc[1], col |-> rc[2], guess |-> 1, pc |-> "loop"])]
  /\ UNCHANGED <<input, puzzle, ret, writes, ntests, ncalls, lastTest, chk>>

\* lines 39-43: the next guess is tested; a valid one is written to the cell
\* and solve_sudoku is called on the grid, an invalid one is passed over
TestGuess(k) ==
  /\ stack[k] # <<>>
  /\ Top(k).pc = "loop"
  /\ Top(k).guess <= N
  /\ LET f == Top(k)
         ok == is_valid_number(puzzle[k], f.guess, f.row, f.col)
     IN /\ lastTest' = [lastTest EXCEPT ![k] =
               [row |-> f.row, col |-> f.col, guess |-> f.guess,
                held |-> puzzle[k][f.row][f.col], result |-> ok]]
        /\ ntests' = [ntests EXCEPT ![k] = @ + 1]
        /\ IF ok
             THEN /\ puzzle' = [puzzle EXCEPT ![k][f.row][f.col] = f.guess]
                  /\ writes' = [writes EXCEPT ![k] = Append(@, <<f.row, f.col, f.guess>>)]
                  /\ ncalls' = [ncalls EXCEPT ![k] = @ + 1]
                  /\ stack' = [stack EXCEPT ![k] =
                       Append(SetTop(k, [f EXCEPT !.pc = "called"]), EntryFrame)]
             ELSE /\ stack' = [stack EXCEPT ![k] =
                       SetTop(k, [f EXCEPT !.guess = @ + 1])]
                  /\ UNCHANGED <<puzzle, writes, ncalls>>
  /\ UNCHANGED <<input, ret, chk>>

\* lines 43-44 with the result of the recursive call dropped: the loop goes on
SucceedGoesOn(k) ==
  /\ stack[k] # <<>>
  /\ Top(k).pc = "called"
  /\ ret[k] = "True"
  /\ stack' = [stack EXCEPT ![k] =
       SetTop(k, [Top(k) EXCEPT !.guess = @ + 1, !.pc = "loop"])]
  /\ UNCHANGED <<input, puzzle, ret, writes, ntests, ncalls, lastTest, chk>>

\* lines 43-44: the recursive call returned True, return True
Succeed(k) ==
  /\ stack[k] # <<>>
  /\ Top(k).pc = "called"
  /\ ret[k] = "True"
  /\ stack' = [stack EXCEPT ![k] = Pop(k)]
  /\ UNCHANGED <<input, puzzle, ret, writes, ntests, ncalls, lastTest, chk>>

\* lines 43, 39 followed by an undo, puzzle[row][col] = -1
NextGuessUndo(k) ==
  /\ stack[k] # <<>>
  /\ Top(k).pc = "called"
  /\ ret[k] = "None"
  /\ puzzle' = [puzzle EXCEPT ![k][Top(k).row][Top(k).col] = EMPTY]
  /\ stack' = [stack EXCEPT ![k] =
       SetTop(k, [Top(k) EXCEPT !.guess = @ + 1, !.pc = "loop"])]
  /\ ret' = [ret EXCEPT ![k] = "pending"]
  /\ UNCHANGED <<input, writes, ntests, ncalls, lastTest, chk>>

\* lines 43, 39: the recursive call returned None, which is falsy: the loop
\* goes on to the next guess, the cell keeping the value written at line 41
NextGuess(k) ==
  /\ stack[k] # <<>>
  /\ Top(k).pc = "called"
  /\ ret[k] = "None"
  /\ stack' = [stack EXCEPT ![k] =
       SetTop(k, [Top(k) EXCEPT !.guess = @ + 1, !.pc = "loop"])]
  /\ ret' = [ret EXCEPT ![k] = "pending"]
  /\ UNCHANGED <<input, puzzle, writes, ntests, ncalls, lastTest, chk>>

\* line 44, end of the function: the loop is over and the function ends
\* without a return statement, so the call evaluates to None
FallOff(k) ==
  /\ stack[k] # <<>>
  /\ Top(k).pc = "loop"
  /\ Top(k).guess > N
  /\ stack' = [stack EXCEPT ![k] = Pop(k)]
  /\ ret' = [ret EXCEPT ![k] = "None"]
  /\ UNCHANGED <<input, puzzle, writes, ntests, ncalls, lastTest, chk>>

\* solve_sudoku, one step of one of its activations
Next ==
  \/ \E k \in Runs : BaseCase(k)
  \/ \E k \in Runs : SelectCell(k)
  \/ \E k \in Runs : TestGuess(k)
  \/ \E k \in Runs : Succeed(k)
  \/ \E k \in Runs : NextGuess(k)
  \/ \E k \in Runs : FallOff(k)

Spec == Init /\ [][Next]_vars

\* solve_sudoku keeps running until the outermost call returns: the program
\* is single-threaded and nothing suspends it
SpecLive == Init /\ [][Next]_vars /\ WF_vars(Next)

\* Two runs of solve_sudoku on equal input grids, their steps interleaved.
InitDet == \E g \in DetInputs : InitRuns({1, 2}, g)

SpecDet == InitDet /\ [][Next]_vars

\* A direct call is_valid_number(puzzle, guess, row, col), for every grid of
\* CheckInputs, every guess and every target cell.
InitCheck ==
  \E g \in CheckInputs, v \in Guesses, r \in Rows, c \in Cols :
    /\ input = g
    /\ puzzle = [k \in {1} |-> g]
    /\ stack = [k \in {1} |-> <<>>]
    /\ ret = [k \in {1} |-> "pending"]
    /\ writes = [k \in {1} |-> <<>>]
    /\ ntests = [k \in {1} |-> 0]
    /\ ncalls = [k \in {1} |-> 0]
    /\ lastTest = [k \in {1} |-> NoTest]
    /\ chk = [guess |-> v, row |-> r, col |-> c, result |-> "pending"]

\* lines 9-29: the call returns its verdict; the function assigns to nothing
CallIsValid ==
  /\ chk.result = "pending"
  /\ chk' = [chk EXCEPT !.result =
       IF is_valid_number(puzzle[1], chk.guess, chk.row, chk.col)
         THEN "True" ELSE "False"]
  /\ UNCHANGED <<input, puzzle, stack, ret, writes, ntests, ncalls, lastTest>>

NextCheck == CallIsValid

SpecCheck == InitCheck /\ [][NextCheck]_vars

Done(k) == stack[k] = <<>>

(***************************************************************************)
(* Predicates on grids used to state the properties.                       *)
(***************************************************************************)
Cells == Rows \X Cols

SameSquare(a, b) ==
  /\ a[1] \div BOX = b[1] \div BOX
  /\ a[2] \div BOX = b[2] \div BOX

\* two distinct cells of one row, one column or one 3x3 square
Peers(a, b) == a # b /\ (a[1] = b[1] \/ a[2] = b[2] \/ SameSquare(a, b))

\* no duplicate non-EMPTY value in any row, column or 3x3 square
Consistent(g) ==
  \A r \in Rows, c \in Cols : g[r][c] # EMPTY =>
    /\ \A c2 \in Cols \ {c} : g[r][c2] # g[r][c]
    /\ \A r2 \in Rows \ {r} : g[r2][c] # g[r][c]
    /\ \A r2 \in (r - (r % BOX)) .. (r - (r % BOX) + BOX - 1),
          c2 \in (c - (c % BOX)) .. (c - (c % BOX) + BOX - 1) :
          (r2 # r \/ c2 # c) => g[r2][c2] # g[r][c]

NoEmpty(g) == \A a \in Cells : g[a[1]][a[2]] # EMPTY

\* every row, column and 3x3 square holds each of 1..9 exactly once
Solved(g) ==
  /\ \A a \in Cells : g[a[1]][a[2]] \in Guesses
  /\ \A r \in Rows, v \in Guesses : Cardinality({c \in Cols : g[r][c] = v}) = 1
  /\ \A c \in Cols, v \in Guesses : Cardinality({r \in Rows : g[r][c] = v}) = 1
  /\ \A a \in {b \in Cells : b[1] % BOX = 0 /\ b[2] % BOX = 0}, v \in Guesses :
       Cardinality({b \in Cells : SameSquare(a, b) /\ g[b[1]][b[2]] = v}) = 1

\* full is a valid complete grid that agrees with g on every clue of g
CompletedBy(g, full) ==
  /\ Solved(full)
  /\ \A a \in Cells : g[a[1]][a[2]] # EMPTY => full[a[1]][a[2]] = g[a[1]][a[2]]

\* some EMPTY cell of g has every value of 1..9 among its peers: g has no
\* completion
HasDeadCell(g) ==
  \E a \in Cells :
    /\ g[a[1]][a[2]] = EMPTY
    /\ \A v \in Guesses : \E b \in Cells : Peers(a, b) /\ g[b[1]][b[2]] = v

(***************************************************************************)
(* C1: from a constraint-consistent input, whenever solve_sudoku returns   *)
(* True the grid has no EMPTY cell and every row, column and 3x3 square    *)
(* holds each of 1..9 exactly once.                                        *)
(***************************************************************************)
C1_TrueMeansSolved ==
  \A k \in Runs :
    (ret[k] = "True" /\ Consistent(input)) => Solved(puzzle[k])

C1_Witness ==
  \E k \in Runs :
    /\ Done(k) /\ ret[k] = "True"
    /\ Len(writes[k]) > 1
    /\ Consistent(input)

(***************************************************************************)
(* C2: for every constraint-consistent input grid that has a valid         *)
(* completion, the entirely EMPTY grid among them, the outermost call of   *)
(* solve_sudoku returns True.                                              *)
(***************************************************************************)
C2_SolvableReturnsTrue ==
  \A k \in Runs :
    (Done(k) /\ Consistent(input) /\ CompletedBy(input, Base)) => ret[k] = "True"

(***************************************************************************)
(* C3: for a constraint-consistent input grid with no solution, the grid   *)
(* after the failed outermost call equals the input grid cell for cell.    *)
(***************************************************************************)
C3_FailureRestoresInput ==
  \A k \in Runs :
    (Done(k) /\ ret[k] # "True" /\ HasDeadCell(input) /\ Consistent(input))
      => puzzle[k] = input

(***************************************************************************)
(* C4: for a constraint-consistent input grid with no valid completion,    *)
(* the outermost call of solve_sudoku returns the boolean False.           *)
(***************************************************************************)
C4_UnsolvableReturnsFalse ==
  \A k \in Runs :
    (Done(k) /\ HasDeadCell(input) /\ Consistent(input)) => ret[k] = "False"

(***************************************************************************)
(* C5: at every point of every run every cell that is non-EMPTY in the     *)
(* input holds its input value, and every write goes to a cell that is     *)
(* EMPTY in the input.                                                     *)
(***************************************************************************)
C5_CluesKept ==
  \A k \in Runs :
    /\ \A a \in Cells :
         input[a[1]][a[2]] # EMPTY => puzzle[k][a[1]][a[2]] = input[a[1]][a[2]]
    /\ \A i \in 1 .. Len(writes[k]) :
         input[writes[k][i][1]][writes[k][i][2]] = EMPTY

C5_Witness ==
  \E k \in Runs :
    /\ Done(k)
    /\ Len(writes[k]) > 1
    /\ \E a \in Cells : input[a[1]][a[2]] # EMPTY

\* the verdict of a direct call, as chk.result records it
Verdict(b) == IF b THEN "True" ELSE "False"

\* guess occurs in no cell of row `row`, of column `col`, or of the 3x3
\* square with origin (row - row%3, col - col%3)
NoDuplicate(g, guess, row, col) ==
  /\ \A c \in Cols : g[row][c] # guess
  /\ \A r \in Rows : g[r][col] # guess
  /\ \A r \in (row - (row % BOX)) .. (row - (row % BOX) + BOX - 1),
        c \in (col - (col % BOX)) .. (col - (col % BOX) + BOX - 1) : g[r][c] # guess

(***************************************************************************)
(* C6: for every grid, every value of 1..9 and every EMPTY target cell,    *)
(* is_valid_number returns True if and only if the value occurs in no cell *)
(* of the row, of the column and of the 3x3 square of the target; the call *)
(* leaves the grid unchanged.                                              *)
(***************************************************************************)
C6_ValidIffNoDuplicate ==
  (chk.result \in {"True", "False"} /\ input[chk.row][chk.col] = EMPTY) =>
    /\ (chk.result = "True") <=> NoDuplicate(input, chk.guess, chk.row, chk.col)
    /\ puzzle[1] = input

C6_Witness ==
  /\ chk.result = "True"
  /\ input[chk.row][chk.col] = EMPTY
  /\ \E a \in Cells : input[a[1]][a[2]] # EMPTY

(***************************************************************************)
(* C7, as claimed: the result of is_valid_number(grid, value, row, col) is *)
(* the same for any two grids that differ only at (row, col), one that     *)
(* holds `value` in that cell included.                                    *)
(***************************************************************************)
C7_TargetContentIgnored ==
  chk.result \in {"True", "False"} =>
    \A w \in Guesses \cup {EMPTY} :
      Verdict(is_valid_number([puzzle[1] EXCEPT ![chk.row][chk.col] = w],
                              chk.guess, chk.row, chk.col)) = chk.result

(***************************************************************************)
(* C7, amended: the result is the same for any two grids that differ only  *)
(* at (row, col) when neither holds `value` in that cell; when the cell    *)
(* holds `value` the result is False.                                      *)
(***************************************************************************)
C7_TargetContentIgnoredUnlessValue ==
  chk.result \in {"True", "False"} =>
    /\ puzzle[1][chk.row][chk.col] = chk.guess => chk.result = "False"
    /\ puzzle[1][chk.row][chk.col] # chk.guess =>
         \A w \in (Guesses \cup {EMPTY}) \ {chk.guess} :
           Verdict(is_valid_number([puzzle[1] EXCEPT ![chk.row][chk.col] = w],
                                   chk.guess, chk.row, chk.col)) = chk.result

C7_Witness ==
  /\ chk.result = "True"
  /\ puzzle[1][chk.row][chk.col] \in Guesses

(***************************************************************************)
(* C8: solve_sudoku on a grid with no EMPTY cell returns True at once: no  *)
(* candidate is tested, no recursive call is made, no cell is written.     *)
(***************************************************************************)
C8_FullGridReturnsTrueAtOnce ==
  \A k \in Runs :
    NoEmpty(input) =>
      /\ ntests[k] = 0 /\ ncalls[k] = 0 /\ writes[k] = <<>>
      /\ puzzle[k] = input
      /\ stack[k] = <<EntryFrame>> \/ (Done(k) /\ ret[k] = "True")

C8_Witness ==
  \E k \in Runs : Done(k) /\ NoEmpty(input) /\ ret[k] = "True"

\* s is an initial part of t
IsPrefix(s, t) == Len(s) <= Len(t) /\ SubSeq(t, 1, Len(s)) = s

C10_CellEmptyAfterFailedCall ==
  \A k \in Runs :
    (stack[k] # <<>> /\ Top(k).pc = "loop" /\ Consistent(input)) =>
      puzzle[k][Top(k).row][Top(k).col] = EMPTY

(***************************************************************************)
(* C11: from a constraint-consistent input grid, in every state of the     *)
(* search no two distinct non-EMPTY cells that share a row, a column or a  *)
(* 3x3 square hold the same value.                                         *)
(***************************************************************************)
C11_GridStaysConsistent ==
  \A k \in Runs : Consistent(input) => Consistent(puzzle[k])

C11_Witness ==
  \E k \in Runs :
    /\ Consistent(input)
    /\ stack[k] # <<>> /\ Top(k).pc = "loop" /\ Top(k).guess > 1
    /\ puzzle[k][Top(k).row][Top(k).col] # EMPTY

(***************************************************************************)
(* C12: once an activation of solve_sudoku has returned True, every step   *)
(* that follows is an enclosing activation returning True: no candidate is *)
(* tested, no call is made and the grid is not written, so the grid at the *)
(* outermost return is the grid of the base case.                          *)
(***************************************************************************)
C12_SuccessPropagates ==
  [][\A k \in Runs :
       ret[k] = "True" =>
         /\ ret'[k] = "True"
         /\ stack'[k] = stack[k] \/ stack'[k] = Pop(k)
         /\ puzzle'[k] = puzzle[k]
         /\ writes'[k] = writes[k]
         /\ ntests'[k] = ntests[k]
         /\ ncalls'[k] = ncalls[k]]_vars

C12_Witness ==
  \E k \in Runs :
    /\ Done(k) /\ ret[k] = "True"
    /\ ncalls[k] > 2
    /\ ntests[k] > ncalls[k]

(***************************************************************************)
(* C13: every call of is_valid_number made by solve_sudoku, a call for a   *)
(* candidate tested after an earlier candidate's recursive call failed     *)
(* included, is made while the target cell holds EMPTY.                    *)
(***************************************************************************)
C13_TestedCellIsEmpty ==
  \A k \in Runs :
    (lastTest[k].guess \in Guesses /\ Consistent(input)) =>
      lastTest[k].held = EMPTY

\* the nested activations of run k that hold a placement: those waiting for
\* the recursive call of line 43 to return
Depth(k) ==
  Cardinality({i \in 1 .. Len(stack[k]) : stack[k][i].pc = "called"})

EmptyCount(g) == Cardinality({a \in Cells : g[a[1]][a[2]] = EMPTY})

(***************************************************************************)
(* C14: every call of solve_sudoku returns, and at every point of the run  *)
(* the number of nested activations that hold a placement is at most the   *)
(* number of EMPTY cells of the input grid, hence at most 81.              *)
(***************************************************************************)
C14_TerminatesWithBoundedDepth ==
  /\ <>(\A k \in Runs : Done(k))
  /\ [](\A k \in Runs : Depth(k) <= EmptyCount(input) /\ Depth(k) <= N * N)

C14_Witness ==
  \E k \in Runs :
    /\ ret[k] = "True"
    /\ Depth(k) = EmptyCount(input)
    /\ Depth(k) > 2

(***************************************************************************)
(* C15: solve_sudoku never writes EMPTY: in every step a cell that is      *)
(* non-EMPTY stays non-EMPTY, every value written is in 1..9, and a value  *)
(* written over an earlier one, which only the same activation can have    *)
(* written, is greater than it.                                            *)
(***************************************************************************)
C15_NeverWritesEmpty ==
  [][\A k \in Runs :
       /\ \A a \in Cells :
            /\ puzzle[k][a[1]][a[2]] # EMPTY => puzzle'[k][a[1]][a[2]] # EMPTY
            /\ puzzle'[k][a[1]][a[2]] # puzzle[k][a[1]][a[2]] =>
                 /\ puzzle'[k][a[1]][a[2]] \in Guesses
                 /\ puzzle[k][a[1]][a[2]] < puzzle'[k][a[1]][a[2]]
                 /\ stack[k] # <<>> /\ a = <<Top(k).row, Top(k).col>>
       /\ \A i \in 1 .. Len(writes'[k]), j \in 1 .. Len(writes'[k]) :
            (i < j /\ writes'[k][i][1] = writes'[k][j][1]
                   /\ writes'[k][i][2] = writes'[k][j][2])
              => writes'[k][i][3] < writes'[k][j][3]]_vars

C15_Witness ==
  \E k \in Runs :
    /\ Consistent(input)
    /\ \E i \in 1 .. Len(writes[k]), j \in 1 .. Len(writes[k]) :
         /\ i < j
         /\ writes[k][i][1] = writes[k][j][1]
         /\ writes[k][i][2] = writes[k][j][2]

====
